---------------------------- MODULE Spec2Model ----------------------------
(***************************************************************************)
(* A model of pcg32.h (struct pcg32): the PCG32 generator's two 64-bit     *)
(* fields, its constructor, seed, nextUInt, nextUInt(bound), nextFloat,    *)
(* nextDouble, advance and shuffle.                                        *)
(*                                                                         *)
(* TLC's integers are 32 bits wide, so a uint64_t is a tuple of 8 bytes    *)
(* and a uint32_t a tuple of 4 bytes, least significant byte first.  All   *)
(* arithmetic is done on these tuples and wraps as the C++ types do.       *)
(***************************************************************************)
EXTENDS Integers, Sequences, FiniteSets, TLC

-----------------------------------------------------------------------------
(* Fixed-width unsigned arithmetic on byte tuples (least significant first). *)
(* The operations are functions: TLC evaluates a function's argument once,   *)
(* where it would evaluate an operator's argument at every use.              *)

Word == Seq(0..255)

\* n (0 <= n < 2^31) as an unsigned word of k bytes.
ToWord[n \in Nat, k \in Nat] ==
    IF k = 0 THEN <<>> ELSE <<n % 256>> \o ToWord[n \div 256, k - 1]

U32(n) == ToWord[n, 4]
U64(n) == ToWord[n, 8]

\* a widened with zero bytes, or cut, to k bytes: (uintN_t) a.
RECURSIVE ResizeFrom(_, _, _)
ResizeFrom(a, i, k) ==
    IF i > k THEN <<>>
    ELSE <<IF i <= Len(a) THEN a[i] ELSE 0>> \o ResizeFrom(a, i + 1, k)

Resize[a \in Word, k \in Nat] == ResizeFrom(a, 1, k)

\* The value of a word that is known to be below 2^31.
ToNat[a \in Word] == IF a = <<>> THEN 0 ELSE a[1] + 256 * ToNat[Tail(a)]

\* cols[i] + carry, byte by byte; the carry out of the top byte is dropped.
RECURSIVE Carry(_, _, _)
Carry(cols, i, c) ==
    IF i > Len(cols) THEN <<>>
    ELSE LET s == cols[i] + c
         IN  <<s % 256>> \o Carry(cols, i + 1, s \div 256)

\* a + b modulo 2^(8 * Len(a))
Add[a \in Word, b \in Word] == Carry([i \in 1..Len(a) |-> a[i] + b[i]], 1, 0)

\* -a modulo 2^(8 * Len(a)): unary minus on an unsigned word.
Neg[a \in Word] == Carry([i \in 1..Len(a) |-> 255 - a[i]], 1, 1)

\* a - b modulo 2^(8 * Len(a))
Sub[a \in Word, b \in Word] == Add[a, Neg[b]]

RECURSIVE Dot(_, _, _, _)
Dot(a, b, k, i) == IF i > k THEN 0 ELSE a[i] * b[k + 1 - i] + Dot(a, b, k, i + 1)

\* a * b modulo 2^(8 * Len(a))
Mul[a \in Word, b \in Word] == Carry([k \in 1..Len(a) |-> Dot(a, b, k, 1)], 1, 0)

\* a < b, for words of the same length
RECURSIVE LessFrom(_, _, _)
LessFrom(a, b, i) ==
    IF i = 0 THEN FALSE
    ELSE IF a[i] # b[i] THEN a[i] < b[i]
    ELSE LessFrom(a, b, i - 1)

Less[a \in Word, b \in Word] == LessFrom(a, b, Len(a))

IsZero[a \in Word] == \A i \in 1..Len(a) : a[i] = 0

Odd[a \in Word] == a[1] % 2 = 1

\* Bit i (0 is the least significant) of a; 0 beyond the word.
Bit(a, i) ==
    IF i < 0 \/ i >= 8 * Len(a) THEN 0
    ELSE (a[(i \div 8) + 1] \div (2 ^ (i % 8))) % 2

\* Byte j of a; 0 beyond the word.
Byte(a, j) == IF j < 1 \/ j > Len(a) THEN 0 ELSE a[j]

\* The word of k bytes whose bit i is f[i].
RECURSIVE PackFrom(_, _, _)
PackFrom(f, j, k) ==
    IF j > k THEN <<>>
    ELSE LET o == 8 * (j - 1)
         IN  <<f[o] + 2 * f[o + 1] + 4 * f[o + 2] + 8 * f[o + 3] + 16 * f[o + 4]
               + 32 * f[o + 5] + 64 * f[o + 6] + 128 * f[o + 7]>>
             \o PackFrom(f, j + 1, k)

Bits(a) == 0..(8 * Len(a) - 1)

\* a >> n (0 <= n < width): each byte takes the high bits of the byte n \div 8
\* places up and the low bits of the one above it.
RECURSIVE ShrFrom(_, _, _)
ShrFrom(a, n, j) ==
    IF j > Len(a) THEN <<>>
    ELSE LET q == n \div 8
             p == 2 ^ (n % 8)
         IN  <<(Byte(a, j + q) \div p) + (Byte(a, j + q + 1) % p) * (256 \div p)>>
             \o ShrFrom(a, n, j + 1)

Shr[a \in Word, n \in Nat] == ShrFrom(a, n, 1)

\* a << n (0 <= n < width), the bits shifted out at the top dropped
RECURSIVE ShlFrom(_, _, _)
ShlFrom(a, n, j) ==
    IF j > Len(a) THEN <<>>
    ELSE LET q == n \div 8
             p == 2 ^ (n % 8)
         IN  <<(Byte(a, j - q) % (256 \div p)) * p + (Byte(a, j - q - 1) \div (256 \div p))>>
             \o ShlFrom(a, n, j + 1)

Shl[a \in Word, n \in Nat] == ShlFrom(a, n, 1)

\* a ^ b, a | b, a & b
Xor[a \in Word, b \in Word] ==
    PackFrom([i \in Bits(a) |-> (Bit(a, i) + Bit(b, i)) % 2], 1, Len(a))

Or[a \in Word, b \in Word] ==
    PackFrom([i \in Bits(a) |-> IF Bit(a, i) + Bit(b, i) > 0 THEN 1 ELSE 0], 1, Len(a))

And[a \in Word, b \in Word] ==
    PackFrom([i \in Bits(a) |-> Bit(a, i) * Bit(b, i)], 1, Len(a))

\* Long division of a by b (b # 0), bit by bit from the top.  The loop's
\* variables are the record d: the next bit i, the quotient q and the running
\* remainder rem, which has one byte more than b so that 2 * rem + bit fits.
DivStep(a, b, d) ==
    LET sh == Carry([j \in 1..Len(d.rem) |-> 2 * d.rem[j]], 1, Bit(a, d.i))
        ge == ~Less[sh, b]
    IN  [i   |-> d.i - 1,
         q   |-> Carry([j \in 1..Len(d.q) |-> 2 * d.q[j]], 1, IF ge THEN 1 ELSE 0),
         rem |-> IF ge THEN Sub[sh, b] ELSE sh]

\* The loop's variables
DivVars == [i : Int, q : Word, rem : Word]

DivLoop[a \in Word, b \in Word, d \in DivVars] ==
    IF d.i < 0 THEN d ELSE DivLoop[a, b, DivStep(a, b, d)]

DivMod[a \in Word, b \in Word] ==
    DivLoop[a, Resize[b, Len(b) + 1],
            [i |-> 8 * Len(a) - 1, q |-> Resize[<<>>, Len(a)],
             rem |-> Resize[<<>>, Len(b) + 1]]]

\* a / b and a % b for unsigned words; the remainder has b's width.
Div[a \in Word, b \in Word] == DivMod[a, b].q
Mod[a \in Word, b \in Word] == Resize[DivMod[a, b].rem, Len(b)]

-----------------------------------------------------------------------------
(* The generator's arithmetic                                              *)

\* 6364136223846793005ULL = 0x5851F42D4C957F2D
PCG32_MULT == <<45, 127, 149, 76, 45, 244, 81, 88>>

\* The constructor's default arguments: 0x853c49e6748fea9bULL, 0xda3e39cb94b95bdbULL
PCG32_DEFAULT_STATE  == <<155, 234, 143, 116, 230, 73, 60, 133>>
PCG32_DEFAULT_STREAM == <<219, 91, 185, 148, 203, 57, 62, 218>>

\* As nextUInt_state, with the increment left out of the step.
nextUInt_state_noinc(oldstate, i) == Mul[oldstate, PCG32_MULT]

\* nextUInt(): the new state, oldstate * 6364136223846793005ULL + inc
nextUInt_state(oldstate, i) == Add[Mul[oldstate, PCG32_MULT], i]

\* nextUInt(): the value returned, computed from the state before the step
nextUInt_value(oldstate) ==
    LET xorshifted == Resize[Shr[Xor[Shr[oldstate, 18], oldstate], 27], 4]
        rot        == Resize[Shr[oldstate, 59], 4]
    IN  Or[Shr[xorshifted, ToNat[rot]],
           Shl[xorshifted, ToNat[And[Neg[rot], U32(31)]]]]

\* As Threshold, with no draw rejected.
Threshold_none(b) == U32(0)

\* nextUInt(bound): uint32_t threshold = -bound % bound
Threshold(b) == Mod[Neg[b], b]

\* nextUInt(bound): the loop's test, r >= threshold
Accepts(r, t) == ~Less[r, t]

\* As BoundedValue, with the reduction left out.
BoundedValue_raw(r, b) == r

\* nextUInt(bound): return r % bound
BoundedValue(r, b) == Mod[r, b]

\* As CastU64, with a negative delta taken by its magnitude.
CastU64_abs(delta) == IF delta >= 0 THEN U64(delta) ELSE U64(-delta)

\* (uint64_t) delta for an int64_t delta: two's complement
CastU64(delta) == IF delta >= 0 THEN U64(delta) ELSE Neg[U64(-delta)]

\* As AdvanceStep, with cur_plus = cur_mult * cur_plus.
AdvanceStep_plus(l) ==
    [delta    |-> Shr[l.delta, 1],
     acc_mult |-> IF Odd[l.delta] THEN Mul[l.acc_mult, l.cur_mult] ELSE l.acc_mult,
     acc_plus |-> IF Odd[l.delta]
                  THEN Add[Mul[l.acc_plus, l.cur_mult], l.cur_plus]
                  ELSE l.acc_plus,
     cur_plus |-> Mul[l.cur_mult, l.cur_plus],
     cur_mult |-> Mul[l.cur_mult, l.cur_mult]]

\* pcg_advance_lcg_64: one pass of the while loop over its variables
AdvanceStep(l) ==
    [delta    |-> Shr[l.delta, 1],
     acc_mult |-> IF Odd[l.delta] THEN Mul[l.acc_mult, l.cur_mult] ELSE l.acc_mult,
     acc_plus |-> IF Odd[l.delta]
                  THEN Add[Mul[l.acc_plus, l.cur_mult], l.cur_plus]
                  ELSE l.acc_plus,
     cur_plus |-> Mul[Add[l.cur_mult, U64(1)], l.cur_plus],
     cur_mult |-> Mul[l.cur_mult, l.cur_mult]]

\* pcg_advance_lcg_64: the while loop's variables
AdvanceVars ==
    [delta : Word, acc_mult : Word, acc_plus : Word, cur_mult : Word, cur_plus : Word]

\* pcg_advance_lcg_64: while (delta > 0)
AdvanceLoop[l \in AdvanceVars] ==
    IF IsZero[l.delta] THEN l ELSE AdvanceLoop[AdvanceStep(l)]

pcg_advance_lcg_64(s, delta, cur_mult, cur_plus) ==
    LET l == AdvanceLoop[[delta |-> delta, acc_mult |-> U64(1), acc_plus |-> U64(0),
                          cur_mult |-> cur_mult, cur_plus |-> cur_plus]]
    IN  Add[Mul[l.acc_mult, s], l.acc_plus]

\* A floating-point value is m * 2^e, m a word of 5 bytes (2^32 itself fits).
RECURSIVE BitLen(_)
BitLen(x) == IF x = 0 THEN 0 ELSE 1 + BitLen(x \div 2)

\* (float) r for a uint32_t r: a float has a 24-bit significand, so a value of
\* 2^24 or more loses its low bits, rounded to nearest, ties to even.
CastFloat(r) ==
    LET drop == BitLen(r[4])
        unit == 2 ^ drop
        rest == r[1] % unit
        cut  == Sub[Resize[r, 5], ToWord[rest, 5]]
        up   == 2 * rest > unit \/ (2 * rest = unit /\ Bit(r, drop) = 1)
    IN  [m |-> IF drop > 0 /\ up THEN Add[cut, ToWord[unit, 5]] ELSE cut, e |-> 0]

\* (double) r: exact, a double has a 53-bit significand
CastDouble(r) == [m |-> Resize[r, 5], e |-> 0]

\* std::ldexp(x, n) = x * 2^n, exact here (no overflow, no subnormal result)
ldexp(x, n) == [m |-> x.m, e |-> x.e + n]

\* v < 1.0 for a value with e <= 0
LessThanOne(v) == Less[v.m, Shl[ToWord[1, 5], -v.e]]

\* As iter_swap, with the second element overwritten and the first one lost.
iter_swap_copy(s, i, j) == [s EXCEPT ![i + 1] = s[j + 1]]

\* std::iter_swap on positions i and j (counted from 0) of a sequence
iter_swap(s, i, j) == [s EXCEPT ![i + 1] = s[j + 1], ![j + 1] = s[i + 1]]

-----------------------------------------------------------------------------
(* Bounds and inputs of the model                                          *)

\* The number of calls the caller makes on the generator.
MaxCalls == 2

\* The longest container handed to shuffle.
MaxLen == 3

\* pcg32(state, inc): the defaults, and caller-supplied pairs (not validated):
\* state 0 with the even inc 0, and a state whose output is 2^32 - 1.
CtorArgs ==
    { <<PCG32_DEFAULT_STATE, PCG32_DEFAULT_STREAM>>,
      <<U64(0), U64(0)>>,
      <<<<0, 0, 0, 0, 0, 254, 255, 7>>, U64(1)>> }

\* seed(initstate, initseq): the reference vector's seed, and initseq with its top bit set
SeedArgs == { <<U64(42), U64(54)>>, <<U64(0), <<1, 0, 0, 0, 0, 0, 0, 128>>>> }

\* nextUInt(bound): 1, 3, 100, 2^31 and the worst case 2^31 + 1
Bounds == { U32(1), U32(3), U32(100), <<0, 0, 0, 128>>, <<1, 0, 0, 128>> }

\* advance(delta)
Deltas == { 0, 1, 5, -5 }

\* shuffle(begin, end): the containers <<1, ..., n>>
Containers == { [i \in 1..n |-> i] : n \in 0..MaxLen }

-----------------------------------------------------------------------------
(* The state                                                               *)

VARIABLES
    state,      \* uint64_t state
    inc,        \* uint64_t inc
    pc,         \* where the caller's thread is: "idle" (between calls), "loop"
                \* (in nextUInt(bound)'s for(;;)), "shuffle" (at shuffle's loop
                \* test), "fault" (the program was stopped)
    bound,      \* nextUInt(bound): its argument
    threshold,  \* nextUInt(bound): its local
    seq,        \* shuffle: the container, begin at position 0
    it,         \* shuffle: the iterator's position
    call,       \* the call in progress or last made: its name op, its 64-bit
                \* or 32-bit arguments words, advance's delta, shuffle's container
    ret,        \* the uint32_t the last call returned
    fret,       \* the float or double the last call returned
    pre,        \* (state, inc) and the container when the call was made
    set,        \* the last assignment to inc: [by, val]
    ncalls      \* calls made so far

vars == <<state, inc, pc, bound, threshold, seq, it, call, ret, fret, pre, set, ncalls>>

Gen == [state |-> state, inc |-> inc, seq |-> seq]

CanCall == pc = "idle" /\ ncalls < MaxCalls

\* Entering a call
Enter(op, words, delta, cont) ==
    /\ CanCall
    /\ call' = [op |-> op, words |-> words, delta |-> delta, cont |-> cont]
    /\ pre' = Gen
    /\ ncalls' = ncalls + 1

\* pcg32(state, inc)
Init ==
    \E a \in CtorArgs :
        /\ state = a[1]
        /\ inc = a[2]
        /\ pc = "idle"
        /\ bound = U32(0)
        /\ threshold = U32(0)
        /\ seq = <<>>
        /\ it = 0
        /\ call = [op |-> "pcg32", words |-> a, delta |-> 0, cont |-> <<>>]
        /\ ret = U32(0)
        /\ fret = [m |-> ToWord[0, 5], e |-> 0]
        /\ pre = [state |-> a[1], inc |-> a[2], seq |-> <<>>]
        /\ set = [by |-> "pcg32", val |-> a[2]]
        /\ ncalls = 0

\* As seed_inc, without the | 1u.
seed_inc_even(initseq) == Shl[initseq, 1]

\* As seed_state, without state = 0U.
seed_state_keep(initstate, initseq) ==
    LET i  == Or[Shl[initseq, 1], U64(1)]
        s1 == nextUInt_state(state, i)
        s2 == Add[s1, initstate]
    IN  nextUInt_state(s2, i)

\* seed(initstate, initseq)
seed_inc(initseq) == Or[Shl[initseq, 1], U64(1)]

seed_state(initstate, initseq) ==
    LET s0 == U64(0)
        i  == seed_inc(initseq)
        s1 == nextUInt_state(s0, i)
        s2 == Add[s1, initstate]
    IN  nextUInt_state(s2, i)

seed ==
    \E a \in SeedArgs :
        /\ Enter("seed", a, 0, <<>>)
        /\ inc' = seed_inc(a[2])
        /\ state' = seed_state(a[1], a[2])
        /\ set' = [by |-> "seed", val |-> seed_inc(a[2])]
        /\ UNCHANGED <<pc, bound, threshold, seq, it, ret, fret>>

\* nextUInt()
nextUInt ==
    /\ Enter("nextUInt", <<>>, 0, <<>>)
    /\ state' = nextUInt_state(state, inc)
    /\ ret' = nextUInt_value(state)
    /\ UNCHANGED <<inc, pc, bound, threshold, seq, it, fret, set>>

\* nextUInt(bound), up to its loop
nextUIntBound ==
    \E b \in Bounds :
        /\ Enter("nextUInt(bound)", <<b>>, 0, <<>>)
        /\ bound' = b
        /\ threshold' = Threshold(b)
        /\ pc' = "loop"
        /\ UNCHANGED <<state, inc, seq, it, ret, fret, set>>

\* for (;;): r = nextUInt() is below threshold, and the loop goes round
Reject ==
    /\ pc = "loop"
    /\ \E r \in {nextUInt_value(state)} : ~Accepts(r, threshold)
    /\ state' = nextUInt_state(state, inc)
    /\ UNCHANGED <<inc, pc, bound, threshold, seq, it, call, ret, fret, pre, set, ncalls>>

\* for (;;): r >= threshold, return r % bound to the caller
Return ==
    /\ pc = "loop"
    /\ call.op = "nextUInt(bound)"
    /\ \E r \in {nextUInt_value(state)} :
           /\ Accepts(r, threshold)
           /\ ret' = BoundedValue(r, bound)
    /\ state' = nextUInt_state(state, inc)
    /\ pc' = "idle"
    /\ UNCHANGED <<inc, bound, threshold, seq, it, call, fret, pre, set, ncalls>>

\* nextFloat()
nextFloat ==
    /\ Enter("nextFloat", <<>>, 0, <<>>)
    /\ state' = nextUInt_state(state, inc)
    /\ fret' = ldexp(CastFloat(nextUInt_value(state)), -32)
    /\ UNCHANGED <<inc, pc, bound, threshold, seq, it, ret, set>>

\* nextDouble()
nextDouble ==
    /\ Enter("nextDouble", <<>>, 0, <<>>)
    /\ state' = nextUInt_state(state, inc)
    /\ fret' = ldexp(CastDouble(nextUInt_value(state)), -32)
    /\ UNCHANGED <<inc, pc, bound, threshold, seq, it, ret, set>>

\* advance(delta)
advance ==
    \E delta \in Deltas :
        /\ Enter("advance", <<>>, delta, <<>>)
        /\ state' = pcg_advance_lcg_64(state, CastU64(delta), PCG32_MULT, inc)
        /\ UNCHANGED <<inc, pc, bound, threshold, seq, it, ret, fret, set>>

\* shuffle(begin, end): Iterator it = end - 1.  With begin = end the iterator
\* end - 1 lies before the container, which is undefined: the program goes on
\* to the loop test with it = -1, or a checked iterator stops it.
shuffle ==
    \E c \in Containers :
        /\ Enter("shuffle", <<>>, 0, c)
        /\ seq' = c
        /\ it' = Len(c) - 1
        /\ pc' \in IF Len(c) = 0 THEN {"shuffle", "fault"} ELSE {"shuffle"}
        /\ UNCHANGED <<state, inc, bound, threshold, ret, fret, set>>

\* shuffle: it > begin holds, nextUInt((uint32_t) (it - begin + 1)) is called
ShuffleDraw ==
    /\ pc = "shuffle"
    /\ it > 0
    /\ bound' = U32(it + 1)
    /\ threshold' = Threshold(U32(it + 1))
    /\ pc' = "loop"
    /\ UNCHANGED <<state, inc, seq, it, call, ret, fret, pre, set, ncalls>>

\* shuffle: the draw returns, std::iter_swap(it, begin + r % bound), --it
ShuffleSwap ==
    /\ pc = "loop"
    /\ call.op = "shuffle"
    /\ \E r \in {nextUInt_value(state)} :
           /\ Accepts(r, threshold)
           /\ seq' = iter_swap(seq, it, ToNat[BoundedValue(r, bound)])
    /\ state' = nextUInt_state(state, inc)
    /\ it' = it - 1
    /\ pc' = "shuffle"
    /\ UNCHANGED <<inc, bound, threshold, call, ret, fret, pre, set, ncalls>>

\* shuffle: it > begin fails, the loop ends
ShuffleEnd ==
    /\ pc = "shuffle"
    /\ ~(it > 0)
    /\ pc' = "idle"
    /\ UNCHANGED <<state, inc, bound, threshold, seq, it, call, ret, fret, pre, set, ncalls>>

\* A step of a call that is under way
Run == Reject \/ Return \/ ShuffleDraw \/ ShuffleSwap \/ ShuffleEnd

Next ==
    \/ seed
    \/ nextUInt
    \/ nextUIntBound
    \/ nextFloat
    \/ nextDouble
    \/ advance
    \/ shuffle
    \/ Reject
    \/ Return
    \/ ShuffleDraw
    \/ ShuffleSwap
    \/ ShuffleEnd

Spec == Init /\ [][Next]_vars

\* The operations that draw numbers or reseed, and the steps of nextUInt(bound)'s
\* loop.
DrawNext ==
    \/ seed
    \/ nextUInt
    \/ nextUIntBound
    \/ Reject
    \/ Return

\* A call of nextUInt(bound) that was made runs on: the thread is not stopped
\* inside the loop.
FairSpec == Init /\ [][DrawNext]_vars /\ WF_vars(Reject \/ Return)

-----------------------------------------------------------------------------
(* Properties                                                              *)

\* The state after n calls of nextUInt() made from state s with increment i
Steps[s \in Word, i \in Word, n \in Nat] ==
    IF n = 0 THEN s ELSE Steps[nextUInt_state(s, i), i, n - 1]

\* C1: after advance(n) with n >= 0 the generator holds the (state, inc) that
\* n calls of nextUInt() made from the same start leave; advance(0) changes nothing.
AdvanceMatchesSteps ==
    (call.op = "advance" /\ call.delta >= 0) =>
        /\ state = Steps[pre.state, pre.inc, call.delta]
        /\ inc = pre.inc

AdvanceMatchesStepsWitness ==
    call.op = "advance" /\ call.delta = 5 /\ state # pre.state

\* C2: after advance(n), advance(-n) restores the (state, inc) the generator
\* held before, for n of either sign (a negative delta wraps to 2^64 - |delta|).
AdvanceInverse ==
    call.op = "advance" =>
        /\ pcg_advance_lcg_64(state, CastU64(-call.delta), PCG32_MULT, inc) = pre.state
        /\ inc = pre.inc

AdvanceInverseWitness ==
    call.op = "advance" /\ call.delta = 5 /\ state # pre.state /\ Odd[inc]

\* C3: a value returned by nextUInt(bound), bound > 0, is below bound.
BoundedInRange ==
    (call.op = "nextUInt(bound)" /\ pc = "idle") => Less[ret, bound]

BoundedInRangeWitness ==
    /\ call.op = "nextUInt(bound)"
    /\ pc = "idle"
    /\ bound = <<1, 0, 0, 128>>
    /\ ~IsZero[ret]

\* C4: with an odd increment, nextUInt(bound)'s loop is left: some draw reaches
\* the threshold.
BoundedTerminates == (pc = "loop" /\ Odd[inc]) ~> (pc # "loop")

\* A draw was rejected (the state moved on inside the loop) with an odd increment.
BoundedTerminatesWitness ==
    /\ call.op = "nextUInt(bound)"
    /\ pc = "loop"
    /\ Odd[inc]
    /\ state # pre.state

\* How often v occurs in s
RECURSIVE Count(_, _)
Count(s, v) ==
    IF s = <<>> THEN 0 ELSE (IF Head(s) = v THEN 1 ELSE 0) + Count(Tail(s), v)

IsPermutation(s, t) ==
    /\ Len(s) = Len(t)
    /\ \A k \in 1..Len(t) : Count(s, t[k]) = Count(t, t[k])

\* C5: shuffle leaves a permutation of the container it was given; a container
\* of length 0 or 1 is left as it was, and nothing is drawn.
ShufflePermutes ==
    call.op = "shuffle" =>
        /\ IsPermutation(seq, call.cont)
        /\ Len(call.cont) <= 1 => (seq = call.cont /\ state = pre.state)

ShufflePermutesWitness ==
    /\ call.op = "shuffle"
    /\ pc = "idle"
    /\ Len(seq) = 3
    /\ seq # call.cont
    /\ state # pre.state

\* C6: nextFloat() and nextDouble() return a value below 1.0.
FloatBelowOne ==
    call.op \in {"nextFloat", "nextDouble"} => LessThanOne(fret)

SeedClosedForm ==
    call.op = "seed" =>
        LET i == Or[Shl[call.words[2], 1], U64(1)]
        IN  /\ inc = i
            /\ state = Add[Mul[Add[i, call.words[1]], PCG32_MULT], i]

SeedClosedFormWitness ==
    call.op = "seed" /\ ncalls = 2 /\ pre.state # U64(0) /\ state # pre.state

\* 2^32 as a word of 5 bytes
TwoTo32 == <<0, 0, 0, 0, 1>>

\* The number of r in [0, 2^32) with r % b = v, for v < b
Residues(b, v) == Div[Sub[Add[TwoTo32, Sub[b, ToWord[1, 5]]], v], b]

\* C10: threshold = 2^32 mod bound, the accepted range [threshold, 2^32) has a
\* size that is a multiple of bound, and each value v below bound (the first,
\* the last, threshold itself) is r % bound for the same number of accepted r:
\* those below 2^32 less the one, r = v, below threshold when v < threshold.
ThresholdUnbiased ==
    pc = "loop" =>
        LET b  == Resize[bound, 5]
            t  == Resize[threshold, 5]
            d  == DivMod[TwoTo32, bound]
            n  == Resize[d.q, 5]
        IN  /\ threshold = Resize[d.rem, 4]
            /\ Less[t, b]
            /\ Sub[TwoTo32, t] = Mul[n, b]
            /\ \A v \in {ToWord[0, 5], Sub[b, ToWord[1, 5]], t} :
                   Less[v, b] =>
                       Sub[Residues(b, v), ToWord[IF Less[v, t] THEN 1 ELSE 0, 5]] = n

ThresholdUnbiasedWitness ==
    pc = "loop" /\ bound = <<1, 0, 0, 128>> /\ threshold = <<255, 255, 255, 127>>

=============================================================================
